---- MODULE Spec2Model ----
\* nono-wallet (src/app.py): the wallet ledger behind /wallet/create,
\* /wallet/deposit and /wallet/withdraw, as a state machine over the two tables
\* `wallets` and `transactions`.  Every request runs in its own store
\* transaction (`with engine.begin() as conn`); each SQL statement of a handler
\* is one step, so requests interleave statement by statement.
\*
\* The engine is Postgres when DATABASE_URL is set and SQLite otherwise
\* (_build_engine).  The two differ where the handlers depend on it:
\*   postgres  a failed statement aborts the transaction (every later statement
\*             of it raises), the foreign key transactions.wallet_id is
\*             enforced, wallets.name exists and is UNIQUE, writers block on
\*             row / index-entry conflicts (READ COMMITTED);
\*   sqlite    a failed statement is undone alone and the transaction goes on,
\*             foreign keys are not enforced, `ALTER TABLE .. ADD COLUMN name
\*             TEXT UNIQUE` is refused so wallets has no name column, and one
\*             writer at a time holds the database write lock.
\* Both engines build the partial unique index ux_tx_idem on idem_key.
\* Amounts are whole units (the code's float/NUMERIC arithmetic is exact on them).
EXTENDS Integers, Sequences, FiniteSets, Bags, TLC

\* ---------------------------------------------------------------- bounds
NumProcs == 2       \* concurrently served requests
MaxWallets == 2     \* wallets ever created
MaxTx == 4          \* rows ever inserted into transactions
MaxAmount == 2      \* largest amount a request carries
MaxKeys == 1        \* distinct idempotency keys clients use
MaxNames == 1       \* distinct wallet names clients supply
CutDate == 2        \* the instant date_from / date_to filters cut at
\* The limits and the window of rate_limited, scaled down from 20, 15 and 60:
\* the decorator is the same for every limit and window.
DepositLimit == 2   \* limit of @rate_limited on wallet_deposit
WithdrawLimit == 1  \* limit of @rate_limited on wallet_withdraw
Window == 1         \* window of both, in ticks of the clock
MaxClock == 2       \* the last instant of the clock
MaxAdmitted == 2    \* requests that pass the rate limiter

Procs == 1..NumProcs
Keys == 1..MaxKeys
Names == 1..MaxNames

\* ------------------------------------------------------------ the store
Dialects == {"postgres", "sqlite"}

\* _get_idem_key returns None when no key is sent.
NoKey == 0
\* wallets.name is NULL until wallet_create's second transaction sets it.
NoName == 0
\* A wallet_id that names no wallet: ids are uuid4 values chosen by the server,
\* so an id a client made up is never allocated later.
Ghost == MaxWallets + 1
\* data.get("wallet_id") when the request carries none.
NoWid == 0

VARIABLES
    dialect,        \* which engine _build_engine built
    wallets,        \* committed table wallets: id (1..Len) -> [balance, name]
    transactions,   \* committed table transactions, in commit order
    pc,             \* per request slot: the statement it executes next
    req,            \* per request slot: the request's arguments
    wrote,          \* per request slot: uncommitted writes of its transaction
    inTx,           \* per request slot: it has executed DML (sqlite: holds the write lock)
    keySeen,        \* per request slot: what the committed rows held of its key when
                    \*   it arrived (any row; a withdraw row of the same wallet)
    outcome,        \* per request slot: the response and what the request committed
    apiToken,       \* API_TOKEN is configured (non-empty after strip)
    clock,          \* time.time()
    buckets,        \* _rate_buckets: rate key -> deque of admission instants
    gate,           \* per request slot: where it stands in the decorators
    admitted        \* every (operation, instant) the rate limiter let through

gateVars == <<apiToken, clock, buckets, gate, admitted>>

vars == <<dialect, wallets, transactions, pc, req, wrote, inTx, keySeen, outcome, gateVars>>

NoReq == [op |-> "none", wid |-> Ghost, amt |-> 0, idem |-> NoKey, name |-> NoName, ts |-> 0]
NoWrite == [row |-> FALSE, upd |-> FALSE]
NoOutcome == [status |-> "none"]
NotSeen == [any |-> FALSE, withdrawn |-> FALSE]

\* Values of the X-Api-Key header: the configured token, another value, absent.
Headers == {"token", "wrong", "none"}

\* _rate_key: the X-Api-Key header, else the client address
RateKey(hdr) == IF hdr = "none" THEN "addr" ELSE hdr

RateKeys == {RateKey(h) : h \in Headers}

\* Per slot: the stage of the request in the decorators, its handler, its rate
\* key, the instant rate_limited read, and whether the deque of its key held
\* `limit` entries inside the window when it arrived.  Out is a slot outside
\* the decorators; Open is a slot whose request the decorators have let through
\* without the model following them (the handlers on their own).
Out == [stage |-> "out", op |-> "none", key |-> "none", now |-> 0, full |-> FALSE]
Open == [stage |-> "open", op |-> "none", key |-> "none", now |-> 0, full |-> FALSE]

\* return fn(*a, **kw): the decorators call the handler of the request.
Entered(p, op) ==
    \/ gate[p] = Open
    \/ gate[p].stage = "in" /\ gate[p].op = op

Exists(w) == w \in DOMAIN wallets

\* SELECT balance FROM wallets WHERE id=:id  (.scalar(): None when no row)
Balance(w) == wallets[w].balance

\* float(bal or 0)
BalOrZero(w) == IF Exists(w) THEN Balance(w) ELSE 0

\* SELECT id FROM transactions WHERE idem_key=:k  (.first())
KeyRecorded(k) == \E i \in DOMAIN transactions : transactions[i].idem = k

\* The INSERT leaves idem_key out.
RowWithoutKey(r, typ) ==
    [wallet |-> r.wid, type |-> typ, amount |-> r.amt, idem |-> NoKey, created_at |-> r.ts]

\* VALUES (:id,:wid,<type>,:amt,:ts,:ik); the row's id is its place in the table.
Row(r, typ) ==
    [wallet |-> r.wid, type |-> typ, amount |-> r.amt, idem |-> r.idem, created_at |-> r.ts]

InFlight(p) == pc[p] \notin {"idle", "done"}

\* datetime.utcnow() at an INSERT: an instant later than that of every row
\* inserted so far, committed or not (the clock has microsecond resolution;
\* two inserts are taken to read different instants).
Now ==
    LET used == {transactions[i].created_at : i \in DOMAIN transactions}
                  \cup {req[q].ts : q \in {x \in Procs : wrote[x].row}}
    IN IF used = {} THEN 1 ELSE 1 + CHOOSE t \in used : \A u \in used : u <= t

\* The unique index is missing.
NoUniqueIndex(k) == FALSE

\* ux_tx_idem: the committed rows already hold key k
UniqueViolation(k) == k # NoKey /\ KeyRecorded(k)

\* ux_tx_idem under postgres: another open transaction inserted key k; the
\* insert waits for it to commit or roll back.
KeyPending(p, k) ==
    /\ dialect = "postgres"
    /\ k # NoKey
    /\ \E q \in Procs \ {p} : wrote[q].row /\ req[q].idem = k

\* FOREIGN KEY(wallet_id) REFERENCES wallets(id): enforced by postgres only
FKViolation(w) == dialect = "postgres" /\ ~Exists(w)

\* sqlite: one write transaction at a time
WriteLocked(p) == dialect = "sqlite" /\ \E q \in Procs \ {p} : inTx[q]

\* postgres: the wallet row is write-locked by another open transaction
RowLocked(p, w) ==
    /\ dialect = "postgres"
    /\ \E q \in Procs \ {p} : wrote[q].upd /\ req[q].wid = w

\* Rows and balance change a transaction makes durable when it commits.
Signed(r) == IF r.op = "deposit" THEN r.amt ELSE 0 - r.amt

\* The commit stores the row over the newest one.
CommitOverNewest(p) ==
    IF ~wrote[p].row THEN transactions
    ELSE IF transactions = <<>> THEN <<Row(req[p], req[p].op)>>
    ELSE [transactions EXCEPT ![Len(transactions)] = Row(req[p], req[p].op)]

CommitRows(p) ==
    IF wrote[p].row THEN Append(transactions, Row(req[p], req[p].op)) ELSE transactions

CommitWallets(p) ==
    IF wrote[p].upd /\ Exists(req[p].wid)
    THEN [wallets EXCEPT ![req[p].wid].balance = @ + Signed(req[p])]
    ELSE wallets

\* /wallet/balance, /transactions and /transactions/export.csv
ReadOps == {"balance", "list", "export"}

\* A read's response is waiting to be returned.
ReadPending == \E q \in Procs : req[q].op \in ReadOps

\* Budget of the model: an INSERT is executed while the clock has not passed
\* MaxTx (rows that are rolled back use up instants too).
Early == Now <= MaxTx

\* Budget of the model: every request in flight may still insert one row; and a
\* request starts once the response of a read has been returned.
Room ==
    /\ Len(transactions) + Cardinality({q \in Procs : InFlight(q)}) < MaxTx
    /\ Early
    /\ ~ReadPending

Init ==
    /\ dialect \in Dialects
    /\ wallets = <<>>
    /\ transactions = <<>>
    /\ pc = [p \in Procs |-> "idle"]
    /\ req = [p \in Procs |-> NoReq]
    /\ wrote = [p \in Procs |-> NoWrite]
    /\ inTx = [p \in Procs |-> FALSE]
    /\ keySeen = [p \in Procs |-> NotSeen]
    /\ outcome = [p \in Procs |-> NoOutcome]
    /\ apiToken = TRUE
    /\ clock = 0
    /\ buckets = [k \in RateKeys |-> <<>>]
    /\ gate = [p \in Procs |-> Open]
    /\ admitted = EmptyBag

\* The response is sent and the transaction is left open: its locks stay.
FinishHoldingLocks(p, status, f, rows, wals) ==
    /\ pc' = [pc EXCEPT ![p] = "done"]
    /\ transactions' = rows
    /\ wallets' = wals
    /\ outcome' = [outcome EXCEPT ![p] =
                      [status |-> status,
                       hasBal |-> f.hasBal,
                       balance |-> f.balance,
                       raised |-> f.raised,
                       row |-> rows # transactions,
                       upd |-> wals # wallets]]
    /\ UNCHANGED <<dialect, req, keySeen, wrote, inTx, gateVars>>

\* A request ends: its transaction is over (committed with the rows and wallets
\* given, which are the committed tables themselves after a rollback) and the
\* response is sent.
Finish(p, status, f, rows, wals) ==
    /\ pc' = [pc EXCEPT ![p] = "done"]
    /\ transactions' = rows
    /\ wallets' = wals
    /\ outcome' = [outcome EXCEPT ![p] =
                      [status |-> status,
                       hasBal |-> f.hasBal,
                       balance |-> f.balance,
                       raised |-> f.raised,
                       row |-> rows # transactions,
                       upd |-> wals # wallets]]
    /\ wrote' = [wrote EXCEPT ![p] = NoWrite]
    /\ inTx' = [inTx EXCEPT ![p] = FALSE]
    /\ UNCHANGED <<dialect, req, keySeen, gateVars>>

Plain == [hasBal |-> FALSE, balance |-> 0, raised |-> FALSE]
Raised == [hasBal |-> FALSE, balance |-> 0, raised |-> TRUE]
WithBal(b, r) == [hasBal |-> TRUE, balance |-> b, raised |-> r]

\* A statement of the handler moves on to the next one.
Goto(p, next) ==
    /\ pc' = [pc EXCEPT ![p] = next]
    /\ UNCHANGED <<dialect, wallets, transactions, req, wrote, inTx, keySeen, outcome, gateVars>>

\* ------------------------------------------------------- wallet_create
\* The wallet is created without a row in transactions.
NoOpeningRow(r) == <<>>

\* "amt": 0 with "typ": "deposit": the row wallet_create records for tracking
OpeningRow(r) == <<Row(r, "deposit")>>

\* First transaction: INSERT INTO wallets (id, balance) VALUES (:id, 0) and the
\* initial 'deposit' row of amount 0, committed together.
WalletCreate(p) ==
    /\ pc[p] = "idle"
    /\ Entered(p, "create")
    /\ Room
    /\ Len(wallets) < MaxWallets
    /\ ~WriteLocked(p)
    /\ \E n \in Names \cup {NoName} :
         LET wid == Len(wallets) + 1
             name == IF n = NoName THEN MaxNames + wid ELSE n
             r == [op |-> "create", wid |-> wid, amt |-> 0, idem |-> NoKey, name |-> name,
                   ts |-> Now]
         IN /\ req' = [req EXCEPT ![p] = r]
            /\ wallets' = Append(wallets, [balance |-> 0, name |-> NoName])
            /\ transactions' = transactions \o OpeningRow(r)
    /\ pc' = [pc EXCEPT ![p] = "c_name"]
    /\ UNCHANGED <<dialect, wrote, inTx, keySeen, outcome, gateVars>>

\* UPDATE wallets SET name = :name raises (no such column under sqlite, a
\* duplicate name under postgres); wallet_create prints and goes on.
NameUpdateRaises(p) ==
    \/ dialect = "sqlite"
    \/ \E w \in DOMAIN wallets : w # req[p].wid /\ wallets[w].name = req[p].name

\* Second transaction: the name update, then the response.
WalletCreateName(p) ==
    /\ pc[p] = "c_name"
    /\ ~RowLocked(p, req[p].wid)
    /\ Finish(p, "ok", WithBal(0, NameUpdateRaises(p)), transactions,
              IF NameUpdateRaises(p)
              THEN wallets
              ELSE [wallets EXCEPT ![req[p].wid].name = req[p].name])

\* ------------------------------------------------------ wallet_deposit
\* Zero passes the validation.
ZeroAccepted(wid, amt) == wid = NoWid \/ amt < 0

\* if not wallet_id or amount <= 0  (an absent amount is float(0); the amounts
\* requests carry here are 0, which fails the test as every amount below it
\* does, and 1..MaxAmount)
Invalid(wid, amt) == wid = NoWid \/ amt <= 0

\* Arguments of a deposit or withdraw request.
Begin(p, op, first) ==
    /\ pc[p] = "idle"
    /\ Entered(p, op)
    /\ Room
    /\ \E wid \in DOMAIN wallets \cup {Ghost, NoWid}, amt \in 0..MaxAmount,
          idem \in Keys \cup {NoKey} :
         /\ req' = [req EXCEPT ![p] =
                       [op |-> op, wid |-> wid, amt |-> amt, idem |-> idem, name |-> NoName,
                        ts |-> 0]]
         /\ keySeen' = [keySeen EXCEPT ![p] =
                           [any |-> idem # NoKey /\ KeyRecorded(idem),
                            withdrawn |->
                               \E i \in DOMAIN transactions :
                                  /\ idem # NoKey
                                  /\ transactions[i].idem = idem
                                  /\ transactions[i].type = "withdraw"
                                  /\ transactions[i].wallet = wid]]
         /\ IF Invalid(wid, amt)
            THEN \* 400 "wallet_id and positive amount required"
                 /\ pc' = [pc EXCEPT ![p] = "done"]
                 /\ outcome' = [outcome EXCEPT ![p] =
                                   [status |-> "invalid", hasBal |-> FALSE, balance |-> 0,
                                    raised |-> FALSE, row |-> FALSE, upd |-> FALSE]]
            ELSE /\ pc' = [pc EXCEPT ![p] = first[idem # NoKey]]
                 /\ UNCHANGED outcome
    /\ UNCHANGED <<dialect, wallets, transactions, wrote, inTx, gateVars>>

DepositBegin(p) ==
    Begin(p, "deposit", [b \in BOOLEAN |-> IF b THEN "d_lookup" ELSE "d_insert"])

\* The lookup also asks for the wallet of the request.
DepositLookupOwnWallet(p) ==
    /\ pc[p] = "d_lookup"
    /\ Goto(p, IF \E i \in DOMAIN transactions :
                     /\ transactions[i].idem = req[p].idem
                     /\ transactions[i].wallet = req[p].wid
               THEN "d_replay" ELSE "d_insert")

\* if idem: SELECT id FROM transactions WHERE idem_key=:k
DepositLookup(p) ==
    /\ pc[p] = "d_lookup"
    /\ Goto(p, IF KeyRecorded(req[p].idem) THEN "d_replay" ELSE "d_insert")

\* The key is recorded: read the balance and return the idempotent response.
DepositReplay(p) ==
    /\ pc[p] = "d_replay"
    /\ Finish(p, "idempotent", WithBal(BalOrZero(req[p].wid), FALSE), transactions, wallets)

\* An INSERT INTO transactions, or the way it raises.
Insert(p, ok, except) ==
    /\ ~KeyPending(p, req[p].idem)
    /\ ~WriteLocked(p)
    /\ Early
    /\ inTx' = [inTx EXCEPT ![p] = TRUE]
    /\ IF UniqueViolation(req[p].idem) \/ FKViolation(req[p].wid)
       THEN /\ pc' = [pc EXCEPT ![p] = except]
            /\ UNCHANGED <<wrote, req>>
       ELSE /\ pc' = [pc EXCEPT ![p] = ok]
            /\ wrote' = [wrote EXCEPT ![p].row = TRUE]
            /\ req' = [req EXCEPT ![p].ts = Now]
    /\ UNCHANGED <<dialect, wallets, transactions, keySeen, outcome, gateVars>>

\* An UPDATE wallets SET balance = balance +/- :amt WHERE id=:id
Update(p, next) ==
    /\ ~RowLocked(p, req[p].wid)
    /\ wrote' = [wrote EXCEPT ![p].upd = TRUE]
    /\ pc' = [pc EXCEPT ![p] = next]
    /\ UNCHANGED <<dialect, wallets, transactions, req, inTx, keySeen, outcome, gateVars>>

\* except Exception: with a key, read the balance and answer idempotent (the
\* read raises in postgres' aborted transaction); without a key, re-raise.
\* Leaving the `with` block by return commits, by exception rolls back.
Except(p) ==
    IF req[p].idem # NoKey /\ dialect = "sqlite"
    THEN Finish(p, "idempotent", WithBal(BalOrZero(req[p].wid), TRUE),
                CommitRows(p), CommitWallets(p))
    ELSE Finish(p, "error", Raised, transactions, wallets)

DepositInsert(p) ==
    /\ pc[p] = "d_insert"
    /\ Insert(p, "d_update", "d_except")

DepositUpdate(p) ==
    /\ pc[p] = "d_update"
    /\ Update(p, "d_commit")

\* The `with` block ends: commit, then {"ok": True}.
DepositCommit(p) ==
    /\ pc[p] = "d_commit"
    /\ Finish(p, "ok", Plain, CommitRows(p), CommitWallets(p))

DepositExcept(p) ==
    /\ pc[p] = "d_except"
    /\ Except(p)

\* ----------------------------------------------------- wallet_withdraw
WithdrawBegin(p) ==
    Begin(p, "withdraw", [b \in BOOLEAN |-> "w_check"])

\* The check only refuses an empty wallet.
EmptyWalletOnly(w, amt) == ~Exists(w) \/ Balance(w) <= 0

\* The funds check: bal is None or float(bal) < amount
InsufficientFunds(w, amt) == ~Exists(w) \/ Balance(w) < amt

WithdrawCheck(p) ==
    /\ pc[p] = "w_check"
    /\ IF InsufficientFunds(req[p].wid, req[p].amt)
       THEN Finish(p, "insufficient", Plain, transactions, wallets)
       ELSE Goto(p, IF req[p].idem # NoKey THEN "w_lookup" ELSE "w_insert")

WithdrawLookup(p) ==
    /\ pc[p] = "w_lookup"
    /\ Goto(p, IF KeyRecorded(req[p].idem) THEN "w_replay" ELSE "w_insert")

WithdrawReplay(p) ==
    /\ pc[p] = "w_replay"
    /\ Finish(p, "idempotent", WithBal(BalOrZero(req[p].wid), FALSE), transactions, wallets)

WithdrawInsert(p) ==
    /\ pc[p] = "w_insert"
    /\ Insert(p, "w_update", "w_except")

WithdrawUpdate(p) ==
    /\ pc[p] = "w_update"
    /\ Update(p, "w_commit")

WithdrawCommit(p) ==
    /\ pc[p] = "w_commit"
    /\ Finish(p, "ok", Plain, CommitRows(p), CommitWallets(p))

WithdrawExcept(p) ==
    /\ pc[p] = "w_except"
    /\ Except(p)

\* The response is delivered; the slot serves the next request.
Return(p) ==
    /\ pc[p] = "done"
    /\ pc' = [pc EXCEPT ![p] = "idle"]
    /\ req' = [req EXCEPT ![p] = NoReq]
    /\ keySeen' = [keySeen EXCEPT ![p] = NotSeen]
    /\ outcome' = [outcome EXCEPT ![p] = NoOutcome]
    /\ gate' = [gate EXCEPT ![p] = IF @ = Open THEN Open ELSE Out]
    /\ UNCHANGED <<dialect, wallets, transactions, wrote, inTx, apiToken, clock, buckets,
                   admitted>>

Step(p) ==
    \/ WalletCreate(p)
    \/ WalletCreateName(p)
    \/ DepositBegin(p)
    \/ DepositLookup(p)
    \/ DepositReplay(p)
    \/ DepositInsert(p)
    \/ DepositUpdate(p)
    \/ DepositCommit(p)
    \/ DepositExcept(p)
    \/ WithdrawBegin(p)
    \/ WithdrawCheck(p)
    \/ WithdrawLookup(p)
    \/ WithdrawReplay(p)
    \/ WithdrawInsert(p)
    \/ WithdrawUpdate(p)
    \/ WithdrawCommit(p)
    \/ WithdrawExcept(p)
    \/ Return(p)

Next == \E p \in Procs : Step(p)

Spec == Init /\ [][Next]_vars

\* ------------------------------------------------------------ scheduling
\* A request that is being served keeps being served: the thread that runs its
\* handler is scheduled again, and the store runs a statement that waits on a
\* lock once the lock is free.  Arrivals are left to the clients.
Running(p) == InFlight(p) /\ Step(p)

\* The store after one wallet has been created without a name and MaxAmount
\* has been deposited into it, no request being served.
Funded ==
    /\ dialect \in Dialects
    /\ wallets = <<[balance |-> MaxAmount,
                    name |-> IF dialect = "sqlite" THEN NoName ELSE MaxNames + 1]>>
    /\ transactions = <<[wallet |-> 1, type |-> "deposit", amount |-> 0, idem |-> NoKey,
                         created_at |-> 1],
                        [wallet |-> 1, type |-> "deposit", amount |-> MaxAmount,
                         idem |-> NoKey, created_at |-> 2]>>
    /\ pc = [p \in Procs |-> "idle"]
    /\ req = [p \in Procs |-> NoReq]
    /\ wrote = [p \in Procs |-> NoWrite]
    /\ inTx = [p \in Procs |-> FALSE]
    /\ keySeen = [p \in Procs |-> NotSeen]
    /\ outcome = [p \in Procs |-> NoOutcome]

InitLive ==
    /\ Funded
    /\ apiToken = TRUE
    /\ clock = 0
    /\ buckets = [k \in RateKeys |-> <<>>]
    /\ gate = [p \in Procs |-> Open]
    /\ admitted = EmptyBag

SpecLive == InitLive /\ [][Next]_vars /\ \A p \in Procs : WF_vars(Running(p))

\* ------------------------------------------------- statements that raise
\* conn.execute raising for a reason other than a constraint (lock wait timed
\* out, I/O error, connection lost).  Postgres aborts the transaction; sqlite
\* undoes the statement and keeps the transaction, or rolls all of it back.
StmtRaises(p, except) ==
    /\ pc' = [pc EXCEPT ![p] = except]
    /\ \/ UNCHANGED <<wrote, inTx>>
       \/ /\ dialect = "sqlite"
          /\ wrote[p] # NoWrite
          /\ wrote' = [wrote EXCEPT ![p] = NoWrite]
          /\ inTx' = [inTx EXCEPT ![p] = FALSE]
    /\ UNCHANGED <<dialect, wallets, transactions, req, keySeen, outcome, gateVars>>

DepositInsertRaises(p) ==
    /\ pc[p] = "d_insert"
    /\ StmtRaises(p, "d_except")

DepositUpdateRaises(p) ==
    /\ pc[p] = "d_update"
    /\ StmtRaises(p, "d_except")

WithdrawInsertRaises(p) ==
    /\ pc[p] = "w_insert"
    /\ StmtRaises(p, "w_except")

WithdrawUpdateRaises(p) ==
    /\ pc[p] = "w_update"
    /\ StmtRaises(p, "w_except")

Fault(p) ==
    \/ DepositInsertRaises(p)
    \/ DepositUpdateRaises(p)
    \/ WithdrawInsertRaises(p)
    \/ WithdrawUpdateRaises(p)

NextFault == \E p \in Procs : Step(p) \/ Fault(p)

SpecFault == Init /\ [][NextFault]_vars

\* ------------------------------------------------------------ the reads
\* /wallet/balance, /transactions and /transactions/export.csv are one SELECT
\* each on the committed tables.  A read is issued while no request is being
\* served, and its response is returned before the next request starts (Room),
\* so the response can be held against the very tables it was read from.
Quiet(p) == \A q \in Procs \ {p} : pc[q] = "idle"

\* date_from / date_to absent from the query string.
NoDate == 0
\* `type` absent from the query string.
NoType == "any"

\* limit = max(1, min(int(request.args.get("limit", 200)), 500))
LimitMin == 1
LimitMax == 500
LimitDefault == 200

Min(a, b) == IF a <= b THEN a ELSE b
Max(a, b) == IF a >= b THEN a ELSE b

\* The lower clamp is missing.
ClampLimitAbove(l) == Min(l, LimitMax)

ClampLimit(l) == Max(LimitMin, Min(l, LimitMax))

\* offset = max(0, int(request.args.get("offset", 0)))
ClampOffset(o) == Max(0, o)

\* The query strings clients send: no wallet or the first one, no type or
\* 'withdraw', no date bound or one bound at CutDate, the default limit or one
\* beyond either clamp, an offset below zero or of one row.
ReadWallets == {NoWid, 1}
ReadTypes == {NoType, "withdraw"}
ReadDates == {<<NoDate, NoDate>>, <<CutDate, NoDate>>, <<NoDate, CutDate>>}
ReadLimits == {LimitDefault, LimitMin - 1, LimitMax + 1}
ReadOffsets == {0 - 1, 1}

ReadReq(op, wid, typ, dates, limit, offset) ==
    [op |-> op, wid |-> wid, amt |-> 0, idem |-> NoKey, name |-> NoName, ts |-> 0,
     typ |-> typ, df |-> dates[1], dt |-> dates[2], limit |-> limit, offset |-> offset]

\* WHERE 1=1 [AND wallet_id = :wid] [AND created_at >= :df] [AND created_at <= :dt]
\* (the `type` argument is never read)
Where(row, r) ==
    /\ r.wid = NoWid \/ row.wallet = r.wid
    /\ r.df = NoDate \/ row.created_at >= r.df
    /\ r.dt = NoDate \/ row.created_at <= r.dt

\* SELECT id, wallet_id, type, amount, created_at
Item(rows, i) ==
    [id |-> i, wallet_id |-> rows[i].wallet, type |-> rows[i].type,
     amount |-> rows[i].amount, created_at |-> rows[i].created_at]

RECURSIVE OldestFirst(_, _)
\* ORDER BY created_at ASC
OldestFirst(rows, idx) ==
    IF idx = {} THEN <<>>
    ELSE LET i == CHOOSE j \in idx : \A k \in idx : rows[j].created_at <= rows[k].created_at
         IN <<Item(rows, i)>> \o OldestFirst(rows, idx \ {i})

RECURSIVE OrderByCreatedDesc(_, _)
\* ORDER BY created_at DESC
OrderByCreatedDesc(rows, idx) ==
    IF idx = {} THEN <<>>
    ELSE LET i == CHOOSE j \in idx : \A k \in idx : rows[k].created_at <= rows[j].created_at
         IN <<Item(rows, i)>> \o OrderByCreatedDesc(rows, idx \ {i})

Select(rows, r) == OrderByCreatedDesc(rows, {i \in DOMAIN rows : Where(rows[i], r)})

\* LIMIT :limit OFFSET :offset
LimitOffset(s, limit, offset) ==
    [i \in 1..Max(0, Min(Len(s) - offset, limit)) |-> s[offset + i]]

\* f"{r.id},{r.wallet_id},{r.type},{r.amount},{r.created_at}\n"
CsvLine(item) == <<item.id, item.wallet_id, item.type, item.amount, item.created_at>>

\* for r in conn.execute(text(sql), args): yield the row's line
ExportLines(r) ==
    LET s == Select(transactions, r) IN [i \in DOMAIN s |-> CsvLine(s[i])]

\* The response of a read: the slot holds it until it is returned.
Respond(p, r, out) ==
    /\ pc' = [pc EXCEPT ![p] = "done"]
    /\ req' = [req EXCEPT ![p] = r]
    /\ outcome' = [outcome EXCEPT ![p] = out]
    /\ UNCHANGED <<dialect, wallets, transactions, wrote, inTx, keySeen, gateVars>>

\* wallet_balance: 400 without wallet_id, else float(bal or 0) with ok: true
WalletBalance(p) ==
    /\ pc[p] = "idle"
    /\ Quiet(p)
    /\ \E wid \in DOMAIN wallets \cup {Ghost, NoWid} :
         Respond(p, [NoReq EXCEPT !.op = "balance", !.wid = wid],
                 IF wid = NoWid
                 THEN [status |-> "invalid", hasBal |-> FALSE, balance |-> 0]
                 ELSE [status |-> "ok", hasBal |-> TRUE, balance |-> BalOrZero(wid)])

\* transactions_list
TransactionsList(p) ==
    /\ pc[p] = "idle"
    /\ Quiet(p)
    /\ \E wid \in ReadWallets, typ \in ReadTypes, dates \in ReadDates,
          limit \in ReadLimits, offset \in ReadOffsets :
         LET r == ReadReq("list", wid, typ, dates, limit, offset)
         IN Respond(p, r,
                    [status |-> "ok",
                     items |-> LimitOffset(Select(transactions, r),
                                           ClampLimit(limit), ClampOffset(offset)),
                     limit |-> ClampLimit(limit),
                     offset |-> ClampOffset(offset)])

\* transactions_export: the data lines after the header line
TransactionsExport(p) ==
    /\ pc[p] = "idle"
    /\ Quiet(p)
    /\ \E wid \in ReadWallets, dates \in ReadDates :
         LET r == ReadReq("export", wid, NoType, dates, LimitDefault, 0)
         IN Respond(p, r, [status |-> "ok", lines |-> ExportLines(r)])

NextRead ==
    \E p \in Procs :
        \/ Step(p)
        \/ WalletBalance(p)
        \/ TransactionsList(p)
        \/ TransactionsExport(p)

SpecRead == Init /\ [][NextRead]_vars

\* ------------------------------------------------------- the decorators
\* require_api_key (outermost) and rate_limited in front of the handlers.  The
\* threads of the server share _rate_buckets and no lock guards it, so a
\* request runs rate_limited one deque operation at a time.  The clock does
\* not go backwards.
GatedOps == {"create", "deposit", "withdraw"}

\* The handlers under @rate_limited.
LimitedOps == {"deposit", "withdraw"}

\* @rate_limited(limit=20, window=60) on wallet_deposit and
\* @rate_limited(limit=15, window=60) on wallet_withdraw: the same decorator
\* with the deposit limit above the withdraw limit, in a window of Window ticks.
Limit(op) == IF op = "deposit" THEN DepositLimit ELSE WithdrawLimit

\* The check is skipped while API_TOKEN is not configured.
AuthorizedWhenUnset(hdr) == ~apiToken \/ hdr = "token"

\* not (not API_TOKEN or token != API_TOKEN)
Authorized(hdr) == apiToken /\ hdr = "token"

\* The request goes through rate_limited: the handler carries the decorator
\* and require_api_key, applied outside it, has let the request in.
Limited(op, hdr) == op \in LimitedOps /\ Authorized(hdr)

InitGate ==
    /\ Funded
    /\ apiToken \in BOOLEAN
    /\ clock = 0
    /\ buckets = [k \in RateKeys |-> <<>>]
    /\ gate = [p \in Procs |-> Out]
    /\ admitted = EmptyBag

\* A decorator answers in place of the handler (401, 429, or 500 when the
\* decorator raises).
Reject(p, op, status) ==
    /\ pc' = [pc EXCEPT ![p] = "done"]
    /\ req' = [req EXCEPT ![p] = [NoReq EXCEPT !.op = op]]
    /\ outcome' = [outcome EXCEPT ![p] =
                      [status |-> status, hasBal |-> FALSE, balance |-> 0,
                       raised |-> status = "error", row |-> FALSE, upd |-> FALSE]]
    /\ UNCHANGED <<dialect, wallets, transactions, wrote, inTx, keySeen, apiToken, clock,
                   admitted>>

\* The slot of a request moves on inside the decorators.
Stage(p, stage) ==
    /\ gate' = [gate EXCEPT ![p].stage = stage]
    /\ UNCHANGED <<dialect, wallets, transactions, pc, req, wrote, inTx, keySeen, outcome,
                   apiToken, clock, admitted>>

\* The entries of deque q that are no older than the window at instant now.
Fresh(q, now) == {i \in DOMAIN q : now - q[i] <= Window}

\* Budget of the model: the requests that rate_limited has let through or is
\* looking at.
Limiting == {q \in Procs : gate[q].stage \in {"rl_evict", "rl_pop", "rl_retry", "rl_append"}}

\* A request arrives: require_api_key, then for a rate-limited handler
\* now = time.time(), key = _rate_key(), q = _rate_buckets[key]
Arrive(p) ==
    /\ pc[p] = "idle"
    /\ gate[p] = Out
    /\ \E op \in GatedOps, hdr \in Headers :
         IF Limited(op, hdr)
         THEN /\ BagCardinality(admitted) + Cardinality(Limiting) < MaxAdmitted
              /\ gate' = [gate EXCEPT ![p] =
                             [stage |-> "rl_evict", op |-> op, key |-> RateKey(hdr),
                              now |-> clock,
                              full |-> Cardinality(Fresh(buckets[RateKey(hdr)], clock))
                                          >= Limit(op)]]
              /\ UNCHANGED <<dialect, wallets, transactions, pc, req, wrote, inTx, keySeen,
                             outcome, apiToken, clock, buckets, admitted>>
         ELSE IF Authorized(hdr)
         THEN /\ gate' = [gate EXCEPT ![p] =
                             [stage |-> "in", op |-> op, key |-> RateKey(hdr), now |-> clock,
                              full |-> FALSE]]
              /\ UNCHANGED <<dialect, wallets, transactions, pc, req, wrote, inTx, keySeen,
                             outcome, apiToken, clock, buckets, admitted>>
         ELSE /\ Reject(p, op, "unauthorized")
              /\ UNCHANGED <<buckets, gate>>

\* while q and (now - q[0]) > window, then if len(q) >= limit
RateEvict(p) ==
    /\ gate[p].stage = "rl_evict"
    /\ LET q == buckets[gate[p].key]
       IN Stage(p, IF q # <<>> /\ gate[p].now - Head(q) > Window THEN "rl_pop"
                   ELSE IF Len(q) >= Limit(gate[p].op) THEN "rl_retry"
                   ELSE "rl_append")
    /\ UNCHANGED buckets

\* q.popleft(): IndexError when another thread has emptied the deque
RatePop(p) ==
    /\ gate[p].stage = "rl_pop"
    /\ LET q == buckets[gate[p].key]
       IN IF q = <<>>
          THEN /\ Reject(p, gate[p].op, "error")
               /\ gate' = [gate EXCEPT ![p].stage = "answered"]
               /\ UNCHANGED buckets
          ELSE /\ buckets' = [buckets EXCEPT ![gate[p].key] = Tail(q)]
               /\ Stage(p, "rl_evict")

\* retry = max(1, int(window - (now - q[0]))) and the 429 response; q[0] raises
\* IndexError when another thread has emptied the deque
RateRetry(p) ==
    /\ gate[p].stage = "rl_retry"
    /\ Reject(p, gate[p].op,
              IF buckets[gate[p].key] = <<>> THEN "error" ELSE "rate_limited")
    /\ gate' = [gate EXCEPT ![p].stage = "answered"]
    /\ UNCHANGED buckets

\* q.append(now); return fn(*a, **kw)   (fewer than maxlen=512 entries)
RateAppend(p) ==
    /\ gate[p].stage = "rl_append"
    /\ buckets' = [buckets EXCEPT ![gate[p].key] = Append(@, gate[p].now)]
    /\ admitted' = admitted (+) SetToBag({[op |-> gate[p].op, at |-> gate[p].now]})
    /\ gate' = [gate EXCEPT ![p].stage = "in"]
    /\ UNCHANGED <<dialect, wallets, transactions, pc, req, wrote, inTx, keySeen, outcome,
                   apiToken, clock>>

\* Time passes.
Tick ==
    /\ clock < MaxClock
    /\ clock' = clock + 1
    /\ UNCHANGED <<dialect, wallets, transactions, pc, req, wrote, inTx, keySeen, outcome,
                   apiToken, buckets, gate, admitted>>

Decorators(p) ==
    \/ Arrive(p)
    \/ RateEvict(p)
    \/ RatePop(p)
    \/ RateRetry(p)
    \/ RateAppend(p)

NextGate ==
    \/ Tick
    \/ \E p \in Procs : Decorators(p) \/ Step(p)

SpecGate == InitGate /\ [][NextGate]_vars

\* ================================================================ claims
Ledger(p) == req[p].op \in {"deposit", "withdraw"}

\* The step in which request p ends.
Ends(p) == InFlight(p) /\ pc'[p] = "done"

RECURSIVE LedgerSum(_, _)
\* Signed sum of the rows of wallet w: deposits count up, withdraws down.
LedgerSum(rows, w) ==
    IF rows = <<>> THEN 0
    ELSE LET r == Head(rows)
         IN (IF r.wallet # w THEN 0
             ELSE IF r.type = "deposit" THEN r.amount ELSE 0 - r.amount)
            + LedgerSum(Tail(rows), w)

RECURSIVE Total(_)
\* Sum of the balances of all wallets.
Total(ws) == IF ws = <<>> THEN 0 ELSE Head(ws).balance + Total(Tail(ws))

KeyCount(rows, k) == Cardinality({i \in DOMAIN rows : rows[i].idem = k})

\* C1: in every reachable state every wallet's stored balance is >= 0.
C1_NonNegative == \A w \in DOMAIN wallets : wallets[w].balance >= 0

\* C2 (first half): in every committed state each existing wallet's balance is
\* the sum of its deposit rows minus the sum of its withdraw rows.
C2_BalanceIsLedgerSum ==
    \A w \in DOMAIN wallets : wallets[w].balance = LedgerSum(transactions, w)

\* C2: each wallet's balance is its ledger sum, and the total of all balances
\* changes by exactly +amount per successful deposit and -amount per
\* successful withdraw.
C2_Conservation ==
    [][/\ C2_BalanceIsLedgerSum'
       /\ \A p \in Procs :
             (Ends(p) /\ Ledger(p) /\ outcome'[p].status = "ok")
             => Total(wallets') = Total(wallets) + Signed(req[p])]_vars

\* C3: for a wallet w and key k, the call that ends while no row carries k
\* (and, for a withdraw, passed its funds check) answers ok; a call answering ok
\* leaves exactly one row carrying k and has changed the balance by its amount
\* once; a call that arrives when k is already recorded adds no row and changes
\* no balance.
C3_AppliedOnce ==
    [][\A p \in Procs :
          (Ends(p) /\ Ledger(p) /\ req[p].idem # NoKey)
          => /\ keySeen[p].any => (transactions' = transactions /\ wallets' = wallets)
             /\ (Exists(req[p].wid) /\ KeyCount(transactions, req[p].idem) = 0
                   /\ outcome'[p].status # "insufficient")
                => outcome'[p].status = "ok"
             /\ (outcome'[p].status = "ok" /\ Exists(req[p].wid))
                => /\ KeyCount(transactions', req[p].idem) = 1
                   /\ Len(transactions') = Len(transactions) + 1
                   /\ wallets'[req[p].wid].balance
                        = wallets[req[p].wid].balance + Signed(req[p])]_vars

\* A repeated call has ended: same wallet, amount and key as the one row that
\* carries the key, answered as a replay.
C3_Witness ==
    \E p \in Procs :
        /\ pc[p] = "done" /\ Ledger(p) /\ keySeen[p].any
        /\ outcome[p].status = "idempotent"
        /\ Exists(req[p].wid)
        /\ \E i \in DOMAIN transactions :
              /\ transactions[i].wallet = req[p].wid
              /\ transactions[i].type = req[p].op
              /\ transactions[i].amount = req[p].amt
              /\ transactions[i].idem = req[p].idem
              /\ wallets[req[p].wid].balance = Signed(req[p])

\* C4: a withdraw presenting a key already recorded by an earlier successful
\* withdraw on the same wallet gets the success (replay) response, never an
\* error, whatever the balance.
C4_ReplayNeverFails ==
    \A p \in Procs :
        (pc[p] = "done" /\ req[p].op = "withdraw" /\ req[p].amt > 0 /\ keySeen[p].withdrawn)
        => outcome[p].status \in {"ok", "idempotent"}

\* C5: at most one row carries any given key, also when requests presenting
\* the same new key race, and the balance moves for a key only in the step
\* that commits the key's row.
C5_KeyUnique ==
    /\ [](\A k \in Keys : KeyCount(transactions, k) <= 1)
    /\ [][\A p \in Procs :
             (Ends(p) /\ Ledger(p) /\ req[p].idem # NoKey /\ wallets' # wallets)
             => /\ KeyCount(transactions, req[p].idem) = 0
                /\ KeyCount(transactions', req[p].idem) = 1]_vars

\* Two requests raced on one new key: one committed its row, the other's
\* insert hit the unique index.
C5_Witness ==
    \E p \in Procs :
        /\ pc[p] \in {"d_except", "w_except"}
        /\ Exists(req[p].wid)
        /\ ~keySeen[p].any
        /\ KeyCount(transactions, req[p].idem) = 1

\* C6: the request whose insert hits the uniqueness violation ends with the
\* idempotent-replay success response and commits nothing of its own.
C6_LoserReplays ==
    \A p \in Procs :
        (pc[p] = "done" /\ Ledger(p) /\ req[p].idem # NoKey
           /\ Exists(req[p].wid) /\ outcome[p].raised)
        => /\ outcome[p].status = "idempotent"
           /\ ~outcome[p].row
           /\ ~outcome[p].upd

\* C7: every withdraw's funds check reflects all previously committed
\* operations on the wallet: when a withdraw commits its debit, the wallet
\* holds at least the amount, as in the serial order of the commits.
C7_Serial ==
    [][\A p \in Procs :
          (Ends(p) /\ req[p].op = "withdraw" /\ outcome'[p].upd)
          => ~InsufficientFunds(req[p].wid, req[p].amt)]_vars

\* C8: a deposit or withdraw (on an existing wallet) in which the insert or the
\* balance update raised commits nothing: no row without its balance change,
\* no balance change without its row.
C8_NoPartialCommit ==
    \A p \in Procs :
        (pc[p] = "done" /\ Ledger(p) /\ Exists(req[p].wid) /\ outcome[p].raised)
        => (~outcome[p].row /\ ~outcome[p].upd)

\* C9: a withdraw of amount a on an existing wallet whose balance is < a ends
\* with the insufficient-funds error and leaves wallets and transactions as
\* they were.
C9_InsufficientFunds ==
    [][\A p \in Procs :
          (pc[p] = "w_check" /\ pc'[p] # "w_check"
             /\ Exists(req[p].wid) /\ Balance(req[p].wid) < req[p].amt)
          => /\ pc'[p] = "done"
             /\ outcome'[p].status = "insufficient"
             /\ ~outcome'[p].row /\ ~outcome'[p].upd
             /\ wallets' = wallets
             /\ transactions' = transactions]_vars

\* A withdraw of more than a funded wallet holds was refused.
C9_Witness ==
    \E p \in Procs :
        /\ pc[p] = "done" /\ req[p].op = "withdraw"
        /\ outcome[p].status = "insufficient"
        /\ Exists(req[p].wid)
        /\ Balance(req[p].wid) > 0
        /\ Balance(req[p].wid) < req[p].amt

\* C10: a deposit or withdraw naming no existing wallet fails with an error
\* that is neither success nor insufficient funds, and no row referencing the
\* missing wallet is committed.
C10_WalletNotFound ==
    /\ \A p \in Procs :
          (pc[p] = "done" /\ Ledger(p) /\ req[p].amt > 0 /\ ~Exists(req[p].wid))
          => outcome[p].status \notin {"ok", "idempotent", "insufficient"}
    /\ \A i \in DOMAIN transactions : Exists(transactions[i].wallet)

\* C11: a balance read of a wallet id that does not exist fails (it never
\* answers success with a balance); a balance read of an existing wallet
\* answers the stored balance.
C11_BalanceRead ==
    \A p \in Procs :
        (pc[p] = "done" /\ req[p].op = "balance")
        => IF Exists(req[p].wid)
           THEN outcome[p].status = "ok" /\ outcome[p].balance = Balance(req[p].wid)
           ELSE outcome[p].status # "ok"

\* C12: a deposit or withdraw whose amount is <= 0 or whose wallet_id is
\* missing ends in the step it arrives in, with the validation error, having
\* opened no store transaction and with wallets and transactions unchanged,
\* whatever the store holds and whatever key it carries; so no request being
\* served carries such arguments.
C12_RejectedBeforeStore ==
    /\ [][\A p \in Procs :
             (pc[p] = "idle" /\ pc'[p] # "idle" /\ req'[p].op \in {"deposit", "withdraw"}
                /\ (req'[p].wid = NoWid \/ req'[p].amt <= 0))
             => /\ pc'[p] = "done"
                /\ outcome'[p].status = "invalid"
                /\ wallets' = wallets
                /\ transactions' = transactions
                /\ wrote' = wrote
                /\ inTx' = inTx]_vars
    /\ [](\A p \in Procs :
             (InFlight(p) /\ Ledger(p)) => (req[p].wid # NoWid /\ req[p].amt > 0))

\* A deposit or withdraw of amount 0 on an existing wallet, carrying a key the
\* ledger already records, was rejected as invalid.
C12_Witness ==
    \E p \in Procs :
        /\ pc[p] = "done" /\ Ledger(p)
        /\ outcome[p].status = "invalid"
        /\ req[p].amt = 0
        /\ Exists(req[p].wid)
        /\ req[p].idem # NoKey
        /\ KeyRecorded(req[p].idem)

\* C13: the ledger is append-only: in every step of every operation (create,
\* deposit, withdraw, replay, balance read, listing, export) every committed
\* row keeps its place and all its fields, and the table never gets shorter.
C13_AppendOnly ==
    [][/\ Len(transactions') >= Len(transactions)
       /\ \A i \in DOMAIN transactions : transactions'[i] = transactions[i]]_vars

\* An export was produced from a ledger holding a wallet's opening row, a keyed
\* deposit and a withdraw.
C13_Witness ==
    \E p \in Procs :
        /\ pc[p] = "done" /\ req[p].op = "export"
        /\ \E i, j \in DOMAIN transactions :
              /\ transactions[i].type = "deposit" /\ transactions[i].idem # NoKey
              /\ transactions[j].type = "withdraw"

\* C14 as claimed: every row of transactions has an amount > 0 (a wallet
\* created without an initial deposit gets no row).
C14_PositiveAmounts == \A i \in DOMAIN transactions : transactions[i].amount > 0

\* C14 amended: no row has a negative amount; the rows of amount 0 are exactly
\* the opening rows of wallet_create, one per wallet, of type 'deposit' and
\* without a key; every other row has an amount > 0; and wallet_create inserts
\* the wallet with balance 0 together with its opening row.
C14_ZeroOnlyAtCreate ==
    /\ [](\A i \in DOMAIN transactions :
             /\ transactions[i].amount >= 0
             /\ transactions[i].amount = 0
                => /\ transactions[i].type = "deposit"
                   /\ transactions[i].idem = NoKey
                   /\ Exists(transactions[i].wallet))
    /\ [](\A w \in DOMAIN wallets :
             Cardinality({i \in DOMAIN transactions :
                             transactions[i].wallet = w /\ transactions[i].amount = 0}) = 1)
    /\ [][\A p \in Procs :
             (pc[p] = "idle" /\ pc'[p] = "c_name")
             => /\ Len(wallets') = Len(wallets) + 1
                /\ wallets'[Len(wallets')].balance = 0
                /\ Len(transactions') = Len(transactions) + 1
                /\ transactions'[Len(transactions')].wallet = Len(wallets')
                /\ transactions'[Len(transactions')].amount = 0]_vars

\* A wallet was created and funded: the ledger holds its opening row of amount
\* 0 and a row of a positive amount.
C14_Witness ==
    \E p \in Procs :
        /\ pc[p] = "done" /\ req[p].op = "create"
        /\ \E i, j \in DOMAIN transactions :
              /\ transactions[i].wallet = req[p].wid /\ transactions[i].amount = 0
              /\ transactions[j].wallet = req[p].wid /\ transactions[j].amount > 0

\* C15: no two wallets hold the same non-null name; a create whose name update
\* was refused (the name is held by another wallet) fails and leaves no wallet
\* behind; and the name a successful create returns is the name stored for the
\* wallet.
C15_UniqueName ==
    /\ \A v, w \in DOMAIN wallets :
          (v # w /\ wallets[v].name # NoName) => wallets[v].name # wallets[w].name
    /\ \A p \in Procs :
          (pc[p] = "done" /\ req[p].op = "create")
          => /\ outcome[p].raised => (outcome[p].status # "ok" /\ ~Exists(req[p].wid))
             /\ outcome[p].status = "ok" => wallets[req[p].wid].name = req[p].name

\* C16: the items of a /transactions response, taken field by field, are the
\* data lines /transactions/export.csv produces for the same wallet_id,
\* date_from and date_to on the same tables, in the same order.
C16_ListEqualsExport ==
    \A p \in Procs :
        (pc[p] = "done" /\ req[p].op = "list")
        => [i \in DOMAIN outcome[p].items |-> CsvLine(outcome[p].items[i])]
             = ExportLines(req[p])

\* The filters a /transactions request supplies, as the claim reads them.
Satisfies(item, r) ==
    /\ r.wid = NoWid \/ item.wallet_id = r.wid
    /\ r.typ = NoType \/ item.type = r.typ
    /\ r.df = NoDate \/ item.created_at >= r.df
    /\ r.dt = NoDate \/ item.created_at <= r.dt

\* C17: a listing returns only transactions that satisfy every supplied filter
\* (wallet id, type, date_from, date_to), and when the first page is large
\* enough for all of them it omits none that does.
C17_FiltersHonoured ==
    \A p \in Procs :
        (pc[p] = "done" /\ req[p].op = "list")
        => LET items == outcome[p].items
               all == {i \in DOMAIN transactions : Satisfies(Item(transactions, i), req[p])}
           IN /\ \A k \in DOMAIN items : Satisfies(items[k], req[p])
              /\ (outcome[p].offset = 0 /\ Cardinality(all) <= outcome[p].limit)
                 => \A i \in all : \E k \in DOMAIN items : items[k] = Item(transactions, i)

\* C18: a listing is newest-first (of two consecutive items the earlier one's
\* created_at is >= the later one's), holds at most `limit` items where limit
\* is the requested one forced into 1..500 (200 when absent) and offset is
\* forced >= 0, and the call changes no wallet and no transaction.
C18_NewestFirstPage ==
    /\ [](\A p \in Procs :
             (pc[p] = "done" /\ req[p].op = "list")
             => LET items == outcome[p].items
                IN /\ \A k \in 1..(Len(items) - 1) :
                         items[k].created_at >= items[k + 1].created_at
                   /\ Len(items) <= outcome[p].limit
                   /\ outcome[p].limit = (IF req[p].limit < 1 THEN 1
                                          ELSE IF req[p].limit > 500 THEN 500
                                          ELSE req[p].limit)
                   /\ outcome[p].offset = (IF req[p].offset < 0 THEN 0 ELSE req[p].offset))
    /\ [][\A p \in Procs :
             (pc[p] = "idle" /\ req'[p].op = "list")
             => /\ wallets' = wallets
                /\ transactions' = transactions
                /\ wrote' = wrote]_vars

\* A listing returned two items of which the newer one was committed first,
\* so the order of the page is not the order of the table.
C18_Witness ==
    \E p \in Procs :
        /\ pc[p] = "done" /\ req[p].op = "list"
        /\ Len(outcome[p].items) >= 2
        /\ outcome[p].items[1].created_at > outcome[p].items[2].created_at
        /\ outcome[p].items[1].id < outcome[p].items[2].id

\* C19: when a deposit that committed its row under a key and a later deposit
\* of the same wallet, amount and key have both been answered, the two
\* responses agree: both carry a balance, and the same one (the replay being
\* the one marked idempotent).
C19_ReplayMatchesOriginal ==
    \A p, q \in Procs :
        (/\ p # q
         /\ pc[p] = "done" /\ pc[q] = "done"
         /\ req[p].op = "deposit" /\ req[q].op = "deposit"
         /\ req[p].idem # NoKey /\ req[q].idem = req[p].idem
         /\ req[q].wid = req[p].wid /\ req[q].amt = req[p].amt
         /\ Exists(req[p].wid)
         /\ outcome[p].status = "ok" /\ outcome[p].row
         /\ keySeen[q].any /\ outcome[q].status = "idempotent")
        => /\ outcome[p].hasBal
           /\ outcome[q].hasBal
           /\ outcome[p].balance = outcome[q].balance

\* ------------------------------------------------------------------ C21
RECURSIVE Copies(_, _)
\* How many admitted requests of operation op carry an instant of the set ts.
Copies(op, ts) ==
    IF ts = {} THEN 0
    ELSE LET t == CHOOSE x \in ts : TRUE
         IN CopiesIn([op |-> op, at |-> t], admitted) + Copies(op, ts \ {t})

\* C21: among the requests rate_limited has admitted to a handler, no more than
\* the handler's limit carry instants lying within one interval of Window
\* ticks; and a request that arrived when the deque of its key held `limit`
\* instants inside the window is not admitted: it is answered 429 and the deque
\* does not receive its instant.
C21_SlidingWindow ==
    /\ \A op \in LimitedOps, t \in 0..MaxClock :
          Copies(op, t..(t + Window)) <= Limit(op)
    /\ \A p \in Procs :
          gate[p].full =>
             /\ gate[p].stage \in {"rl_evict", "rl_pop", "rl_retry", "answered"}
             /\ pc[p] = "done" => outcome[p].status = "rate_limited"

\* ------------------------------------------------------------------ C22
\* The statement request p executes next waits for request q: on the index
\* entry of the key q has inserted, on the write lock q holds (sqlite), or on
\* the wallet row q has updated.
Holds(q, p) ==
    /\ q # p
    /\ \/ /\ pc[p] \in {"d_insert", "w_insert"}
          /\ \/ /\ dialect = "postgres"
                /\ req[p].idem # NoKey
                /\ wrote[q].row /\ req[q].idem = req[p].idem
             \/ dialect = "sqlite" /\ inTx[q]
       \/ /\ pc[p] \in {"d_update", "w_update"}
          /\ dialect = "postgres"
          /\ wrote[q].upd /\ req[q].wid = req[p].wid

Waits(p) == \E q \in Procs : Holds(q, p)

\* Locks are taken in one order: a request that waits for a key entry holds
\* nothing, a request that waits for a wallet row holds at most its key entry,
\* and a request that holds a wallet row (or sqlite's write lock) does not wait.
C22_LockOrder ==
    /\ \A p, q \in Procs : ~(Holds(q, p) /\ Holds(p, q))
    /\ \A p \in Procs :
          /\ Waits(p) /\ pc[p] \in {"d_insert", "w_insert"} => wrote[p] = NoWrite
          /\ Waits(p) /\ pc[p] \in {"d_update", "w_update"} => ~wrote[p].upd
          /\ wrote[p].upd \/ (dialect = "sqlite" /\ inTx[p]) => ~Waits(p)

\* C22: under fair scheduling every deposit or withdraw request in service
\* eventually completes, and no two requests ever wait on each other: each
\* request takes at most one key entry and then at most one wallet row, in
\* that order.
C22_EveryRequestCompletes ==
    /\ []C22_LockOrder
    /\ \A p \in Procs : InFlight(p) ~> (pc[p] = "done")

\* A request that holds its key entry waits for the wallet row another request
\* has updated.
C22_Witness ==
    \E p, q \in Procs :
        /\ Holds(q, p)
        /\ pc[p] \in {"d_update", "w_update"}
        /\ wrote[p].row /\ req[p].idem # NoKey
        /\ Ledger(q)

\* ------------------------------------------------------------------ C23
\* A step request p takes inside the decorators, before its handler is called.
DecoratorStep(p) ==
    /\ pc[p] = "idle"
    /\ gate[p].stage \notin {"in", "open"}
    /\ gate'[p] # gate[p] \/ pc'[p] # pc[p]

\* The step in which a decorator answers request p with the given status.
Answered(p, status) ==
    /\ pc[p] = "idle"
    /\ pc'[p] = "done"
    /\ outcome'[p].status = status

\* C23: a request leaves wallets and transactions (committed and pending) as
\* they are in every step it takes inside the decorators, so a request answered
\* 401 or 429 has changed none of them; the 401 is given before rate_limited
\* runs and leaves the rate-limit buckets unchanged; and only a request whose
\* X-Api-Key equals a configured API_TOKEN gets past require_api_key (none
\* does while API_TOKEN is not configured: the store keeps the two rows the
\* requests found and the buckets stay empty).
C23_RejectedChangesNothing ==
    /\ [][\A p \in Procs :
            /\ DecoratorStep(p) =>
                  UNCHANGED <<wallets, transactions, wrote, inTx>>
            /\ Answered(p, "rate_limited") =>
                  UNCHANGED <<wallets, transactions, wrote, inTx>>
            /\ Answered(p, "unauthorized") =>
                  /\ UNCHANGED <<wallets, transactions, wrote, inTx>>
                  /\ UNCHANGED <<buckets, admitted>>
                  /\ gate[p] = Out /\ gate'[p] = Out]_vars
    /\ [](\A p \in Procs : gate[p] # Out => apiToken /\ gate[p].key = "token")
    /\ [](~apiToken => /\ \A p \in Procs : ~InFlight(p)
                       /\ Len(transactions) = 2
                       /\ \A k \in RateKeys : buckets[k] = <<>>)

\* One request has been answered 429 and another 401 after the store has taken
\* a withdraw.
C23_Witness ==
    \E p, q \in Procs :
        /\ pc[p] = "done" /\ outcome[p].status = "rate_limited"
        /\ pc[q] = "done" /\ outcome[q].status = "unauthorized"
        /\ \E i \in DOMAIN transactions : transactions[i].type = "withdraw"

\* ------------------------------------------------------------------ C24
\* C24: a deposit, or a withdraw that passes its funds check, whose key some
\* row already carried when it arrived (a row of any wallet and either type)
\* ends as a replay: it adds no row, changes no balance and answers ok and
\* idempotent with the balance the wallet it names has at that moment (0 for a
\* wallet that does not exist).
C24_ReplayByKeyAlone ==
    [][\A p \in Procs :
          (Ends(p) /\ Ledger(p) /\ keySeen[p].any
             /\ outcome'[p].status # "insufficient")
          => /\ outcome'[p].status = "idempotent"
             /\ ~outcome'[p].raised
             /\ transactions' = transactions
             /\ wallets' = wallets
             /\ outcome'[p].hasBal
             /\ outcome'[p].balance = BalOrZero(req[p].wid)]_vars

\* Two replays have been answered: a deposit into another wallet than the one
\* of the row that carries the key, and a request of the other type than that
\* row, into a wallet with money.
C24_Witness ==
    \E p, q \in Procs, i \in DOMAIN transactions :
        /\ p # q
        /\ pc[p] = "done" /\ pc[q] = "done"
        /\ outcome[p].status = "idempotent" /\ outcome[q].status = "idempotent"
        /\ keySeen[p].any /\ keySeen[q].any
        /\ transactions[i].idem = req[p].idem /\ req[q].idem = req[p].idem
        /\ req[p].op = "deposit" /\ transactions[i].wallet # req[p].wid
        /\ req[q].op # transactions[i].type
        /\ Exists(req[q].wid) /\ outcome[q].balance > 0

====
